---- MODULE Spec2Model ----
(***************************************************************************)
(* Lavash Bakery: the ledger store (customers, orders, payments), the      *)
(* handlers of the Express API that write it: POST /customers,             *)
(* PUT /customers/:id, DELETE /customers/:id, POST /orders and             *)
(* POST /payments, the GET /dashboard read, and the orders screen of the   *)
(* client, which posts the batches.                                        *)
(*                                                                         *)
(* Spec runs the writing handlers one at a time, each with an injected     *)
(* store failure. SpecApi and SpecAccounts run them one at a time without  *)
(* injected failures, over more request bodies and more customers.         *)
(* SpecConc runs them statement by statement on several connections.       *)
(* SpecScreen runs the orders screen against the batch handler.            *)
(*                                                                         *)
(* Money is counted in units of 0.005 (half a cent), so that a DECIMAL(12,2)*)
(* column holds exactly the even numbers and an input with a third decimal *)
(* digit is an odd number that the store rounds on assignment.             *)
(***************************************************************************)
EXTENDS Integers, Sequences, FiniteSets, TLC

VARIABLES customers, orders, payments,
          nextCustomerId, nextOrderId, nextPaymentId,
          request, response, payload,
          handlers, log, aborted, pool, screen

\* the handlers in flight, the record of what they committed and abandoned,
\* and the connections they took from the pool
concVars == <<handlers, log, aborted, pool>>

vars == <<customers, orders, payments,
          nextCustomerId, nextOrderId, nextPaymentId, request, response, payload,
          handlers, log, aborted, pool, screen>>

(* ---------------------------- bounds ----------------------------------- *)
MaxCustomers == 1
MaxOrderId   == 2
MaxPaymentId == 2
MaxBatch     == 2
\* connections of the pool that serve requests at the same time
MaxClients   == 2
\* customers, and orders and payments, of the runs that create and delete
\* customers
MaxAccounts  == 2
MaxLedger    == 1

(* ------------------------- input domains ------------------------------- *)
\* customer ids a request may name: 0 (falsy), the ids the store can hold,
\* and one id the store never assigns
CustomerIdInputs == 0 .. (MaxCustomers + 1)
\* total_price values of an order entry: 0.005, 0.01
TotalPrices == {1, 2}
Quantities  == {1}
UnitPrices  == {2}
\* amount values of a payment request: negative, zero, 0.005, 0.01, 0.02
Amounts     == {-2, 0, 1, 2, 4}
\* names as character sequences: empty, blank, plain, padded
Names       == {<<>>, <<" ">>, <<"a">>, <<" ", "a", " ">>}
Phones      == {""}

(* ------------------------- the ledger store ---------------------------- *)
\* DECIMAL(12,2): assignment rounds half away from zero to a whole cent
Round2(x) ==
    IF x % 2 = 0 THEN x
    ELSE IF x > 0 THEN x + 1 ELSE x - 1

\* String.prototype.trim on a character sequence
RECURSIVE TrimLeft(_)
TrimLeft(s) ==
    IF s # <<>> /\ Head(s) = " " THEN TrimLeft(Tail(s)) ELSE s

RECURSIVE TrimRight(_)
TrimRight(s) ==
    IF s # <<>> /\ s[Len(s)] = " " THEN TrimRight(SubSeq(s, 1, Len(s) - 1)) ELSE s

trim(s) == TrimRight(TrimLeft(s))

\* a JSON body field is falsy when it is absent or is 0 (or the empty string)
Falsy(body, f) == f \notin body.has \/ body[f] = 0

\* what the handler sent back and how far it got: the HTTP status (0 when the
\* handler's promise rejected and nothing was sent), whether a transaction was
\* opened and committed, the statement that threw (and the batch entry it
\* belonged to), and whether the settlement UPDATE ran
NoResponse == [status |-> 0, began |-> FALSE, committed |-> FALSE,
               fault |-> "none", k |-> 0, settled |-> FALSE]

Respond(status, began, committed, fault, k, settled) ==
    [status |-> status, began |-> began, committed |-> committed,
     fault |-> fault, k |-> k, settled |-> settled]

\* what the caller gets when the promise of an async handler rejects: nothing
\* from a router that ignores the promise (Express 4), the 500 of the router's
\* own error handler from one that awaits it (Express 5)
Rejected == {0, 500}

\* the request being answered: the route and the body it carried
Request(op, body) == [op |-> op, body |-> body]

\* the JSON sent with the response, as far as the routes differ in it: the
\* message (or error) text, and the count and ids of POST /orders
NoPayload == [message |-> "", count |-> 0, ids |-> <<>>]

Message(text) == [message |-> text, count |-> 0, ids |-> <<>>]

\* a connection of the pool with no request on it
Clients == 1 .. MaxClients

Idle == [op |-> "idle", pc |-> "idle", body |-> <<>>, i |-> 0, began |-> FALSE,
         orders |-> <<>>, customers |-> <<>>, payments |-> <<>>,
         slocks |-> {}, xlocks |-> {}, ids |-> <<>>, read |-> <<>>]

\* a connection of the pool that no request has taken yet: how often the
\* request on it called getConnection and release, and the path it ended on
NoConnection == [acquired |-> 0, released |-> 0, via |-> "none"]

\* the orders screen before its first render: no customers listed, no drafts,
\* no dialog, nothing submitted
NoScreen == [customers |-> <<>>, draftOrders |-> <<>>, submitting |-> FALSE,
             alert |-> "none", closure |-> <<>>, posts |-> 0]

Init ==
    /\ customers = <<>>
    /\ orders = <<>>
    /\ payments = <<>>
    /\ nextCustomerId = 1
    /\ nextOrderId = 1
    /\ nextPaymentId = 1
    /\ request = Request("none", <<>>)
    /\ response = NoResponse
    /\ payload = NoPayload
    /\ handlers = [s \in Clients |-> Idle]
    /\ log = <<>>
    /\ aborted = {}
    /\ pool = [s \in Clients |-> NoConnection]
    /\ screen = NoScreen

(* ------------------------- POST /customers ----------------------------- *)
\* variant: the name is not trimmed before it is tested
ValidNameUntrimmed(body) == "name" \in body.has /\ body.name # <<>>

\* !name || name.trim() === '' is false
ValidName(body) == "name" \in body.has /\ body.name # <<>> /\ trim(body.name) # <<>>

PostCustomers(body) ==
    IF ~ValidName(body)
    THEN /\ response' = Respond(400, FALSE, FALSE, "none", 0, FALSE)
         /\ UNCHANGED <<customers, orders, payments,
                        nextCustomerId, nextOrderId, nextPaymentId>>
    ELSE /\ customers' = customers @@
                (nextCustomerId :>
                   [name |-> trim(body.name),
                    phone |-> IF "phone" \in body.has /\ body.phone # ""
                              THEN body.phone ELSE "null",
                    current_balance |-> 0])
         /\ nextCustomerId' = nextCustomerId + 1
         /\ response' = Respond(201, FALSE, TRUE, "none", 0, FALSE)
         /\ UNCHANGED <<orders, payments, nextOrderId, nextPaymentId>>

CustomerBodies ==
    { [has |-> h, name |-> n, phone |-> p] :
        h \in {{}, {"name"}, {"name", "phone"}}, n \in Names, p \in Phones }

CreateCustomer ==
    \E body \in { b \in CustomerBodies :
                    /\ ("name" \notin b.has => b.name = <<>>)
                    /\ ("phone" \notin b.has => b.phone = "") } :
        /\ PostCustomers(body)
        /\ nextCustomerId' <= MaxCustomers + 1
        /\ request' = Request("customers", body)
        /\ payload' = NoPayload
        /\ UNCHANGED <<concVars, screen>>

(* --------------------------- POST /orders ------------------------------ *)
\* variant: the length test is left out
ValidOrdersBodyAnyArray(body) == body.isArray

\* the body is accepted when it is a non-empty array
ValidOrdersBody(body) == body.isArray /\ Len(body.items) # 0

\* variant: the row takes the status of the entry when it carries one
OrderRowSpread(e) ==
    [customer_id |-> e.customer_id,
     quantity    |-> e.quantity,
     unit_price  |-> Round2(e.unit_price),
     total_price |-> Round2(e.total_price),
     status      |-> IF "status" \in DOMAIN e /\ e.status # ""
                     THEN e.status ELSE "pending"]

\* variant: the row is inserted as paid
OrderRowPaid(e) ==
    [customer_id |-> e.customer_id,
     quantity    |-> e.quantity,
     unit_price  |-> Round2(e.unit_price),
     total_price |-> Round2(e.total_price),
     status      |-> "paid"]

\* INSERT INTO orders: the row a batch entry becomes (status defaults to pending)
OrderRow(e) ==
    [customer_id |-> e.customer_id,
     quantity    |-> e.quantity,
     unit_price  |-> Round2(e.unit_price),
     total_price |-> Round2(e.total_price),
     status      |-> "pending"]

\* UPDATE customers SET current_balance = current_balance + ? WHERE id = ?
AddBalance(custs, cid, delta) ==
    IF cid \in DOMAIN custs
    THEN [custs EXCEPT ![cid].current_balance = Round2(@ + delta)]
    ELSE custs

\* the for loop of the handler from entry i on, inside the open transaction:
\* the tables as the transaction sees them, and the statement that threw
\* insertedIds gains result.insertId after each INSERT
RECURSIVE InsertOrders(_, _, _, _, _, _, _)
InsertOrders(items, i, ords, custs, nid, insertedIds, fault) ==
    IF i > Len(items)
    THEN [ok |-> TRUE, orders |-> ords, customers |-> custs, nextId |-> nid,
          insertedIds |-> insertedIds, at |-> "none", k |-> 0]
    ELSE
      LET e == items[i] IN
      IF (fault.at = "insert" /\ fault.k = i) \/ e.customer_id \notin DOMAIN custs
      THEN [ok |-> FALSE, orders |-> ords, customers |-> custs, nextId |-> nid,
            insertedIds |-> insertedIds, at |-> "insert", k |-> i]
      ELSE
        LET ords1 == ords @@ (nid :> OrderRow(e)) IN
        IF fault.at = "update" /\ fault.k = i
        THEN [ok |-> FALSE, orders |-> ords1, customers |-> custs,
              nextId |-> nid + 1, insertedIds |-> Append(insertedIds, nid),
              at |-> "update", k |-> i]
        ELSE InsertOrders(items, i + 1, ords1,
                          AddBalance(custs, e.customer_id, e.total_price),
                          nid + 1, Append(insertedIds, nid), fault)

\* variant: only the id of the last INSERT is returned
OrdersCreatedLastOnly(insertedIds) ==
    [message |-> "siparis kaydedildi", count |-> Len(insertedIds),
     ids |-> <<insertedIds[Len(insertedIds)]>>]

\* the 201 body: the message carries insertedIds.length, ids is insertedIds
OrdersCreated(insertedIds) ==
    [message |-> "siparis kaydedildi", count |-> Len(insertedIds),
     ids |-> insertedIds]

\* variant: the catch block does not undo the writes of the transaction
RollbackKeepsWrites(pre, tx) == tx

\* conn.rollback(): the tables after the catch block, given the tables before
\* the transaction (pre) and the tables the transaction had written (tx)
Rollback(pre, tx) == pre

PostOrders(body, fault) ==
    IF ~ValidOrdersBody(body)
    THEN /\ response' = Respond(400, FALSE, FALSE, "none", 0, FALSE)
         /\ payload' = NoPayload
         /\ UNCHANGED <<customers, orders, payments,
                        nextCustomerId, nextOrderId, nextPaymentId>>
    ELSE IF fault.at = "getConnection"
    THEN \* the await is outside the try: the handler's promise rejects
         /\ response' \in { Respond(st, FALSE, FALSE, "getConnection", 0, FALSE) :
                              st \in Rejected }
         /\ payload' = NoPayload
         /\ UNCHANGED <<customers, orders, payments,
                        nextCustomerId, nextOrderId, nextPaymentId>>
    ELSE IF fault.at = "beginTransaction"
    THEN /\ response' = Respond(500, FALSE, FALSE, "beginTransaction", 0, FALSE)
         /\ payload' = NoPayload
         /\ UNCHANGED <<customers, orders, payments,
                        nextCustomerId, nextOrderId, nextPaymentId>>
    ELSE
      LET r == InsertOrders(body.items, 1, orders, customers, nextOrderId,
                            <<>>, fault) IN
      /\ nextOrderId' = r.nextId        \* AUTO_INCREMENT is not transactional
      /\ UNCHANGED <<payments, nextCustomerId, nextPaymentId>>
      /\ IF r.ok /\ fault.at # "commit"
         THEN /\ orders' = r.orders
              /\ customers' = r.customers
              /\ response' = Respond(201, TRUE, TRUE, "none", 0, FALSE)
              /\ payload' = OrdersCreated(r.insertedIds)
         ELSE /\ orders' = Rollback(orders, r.orders)
              /\ customers' = Rollback(customers, r.customers)
              /\ response' = Respond(500, TRUE, FALSE,
                                     IF r.ok THEN "commit" ELSE r.at, r.k, FALSE)
              /\ payload' = NoPayload

OrderEntries ==
    { [customer_id |-> c, quantity |-> q, unit_price |-> u, total_price |-> t] :
        c \in CustomerIdInputs \ {0}, q \in Quantities, u \in UnitPrices,
        t \in TotalPrices }

RECURSIVE SeqsUpTo(_, _)
SeqsUpTo(S, n) ==
    IF n = 0 THEN {<<>>}
    ELSE LET shorter == SeqsUpTo(S, n - 1) IN
         shorter \cup { Append(s, x) : s \in { t \in shorter : Len(t) = n - 1 }, x \in S }

OrderBodies ==
    { [isArray |-> TRUE, items |-> s] : s \in SeqsUpTo(OrderEntries, MaxBatch) }
      \cup { [isArray |-> FALSE, items |-> <<>>] }

OrderFaults(body) ==
    { [at |-> a, k |-> 0] : a \in {"none", "getConnection", "beginTransaction", "commit"} }
      \cup { [at |-> a, k |-> i] : a \in {"insert", "update"}, i \in 1 .. Len(body.items) }

CreateOrders ==
    \E body \in OrderBodies : \E fault \in OrderFaults(body) :
        /\ PostOrders(body, fault)
        /\ nextOrderId' <= MaxOrderId + 1
        /\ request' = Request("orders", [isArray |-> body.isArray, n |-> Len(body.items)])
        /\ UNCHANGED <<concVars, screen>>

(* -------------------------- POST /payments ----------------------------- *)
\* variant: only customer_id is tested
ValidPaymentBodyIdOnly(body) == ~Falsy(body, "customer_id")

ValidPaymentBody(body) == ~Falsy(body, "customer_id") /\ ~Falsy(body, "amount")

\* INSERT INTO payments
PaymentRow(body) ==
    [customer_id |-> body.customer_id, amount |-> Round2(body.amount)]

\* variant: the test is < 0 instead of <= 0
ShouldSettleStrict(custs, cid) ==
    cid \in DOMAIN custs /\ custs[cid].current_balance < 0

\* variant: the settlement runs whatever the balance is
ShouldSettleAlways(custs, cid) == cid \in DOMAIN custs

\* SELECT current_balance FROM customers WHERE id = ?, then the test
\* customerRows.length > 0 && parseFloat(current_balance) <= 0
ShouldSettle(custs, cid) ==
    cid \in DOMAIN custs /\ custs[cid].current_balance <= 0

\* variant: the settled orders are moved out of the table
SettleArchives(ords, cid) ==
    [o \in { x \in DOMAIN ords :
               ~(ords[x].customer_id = cid /\ ords[x].status = "pending") }
       |-> ords[o]]

\* variant: the UPDATE has no customer filter
SettleAllCustomers(ords, cid) ==
    [o \in DOMAIN ords |->
        IF ords[o].status = "pending"
        THEN [ords[o] EXCEPT !.status = "paid"]
        ELSE ords[o]]

\* variant: oldest-first settlement, only the first pending order is marked
SettleOldestOnly(ords, cid) ==
    LET pending == { o \in DOMAIN ords :
                       ords[o].customer_id = cid /\ ords[o].status = "pending" } IN
    [o \in DOMAIN ords |->
        IF o \in pending /\ \A q \in pending : o <= q
        THEN [ords[o] EXCEPT !.status = "paid"]
        ELSE ords[o]]

\* variant: the UPDATE has no status filter and flips the status
SettleReopens(ords, cid) ==
    [o \in DOMAIN ords |->
        IF ords[o].customer_id = cid
        THEN [ords[o] EXCEPT !.status = IF @ = "pending" THEN "paid" ELSE "pending"]
        ELSE ords[o]]

\* UPDATE orders SET status = 'paid' WHERE customer_id = ? AND status = 'pending'
Settle(ords, cid) ==
    [o \in DOMAIN ords |->
        IF ords[o].customer_id = cid /\ ords[o].status = "pending"
        THEN [ords[o] EXCEPT !.status = "paid"]
        ELSE ords[o]]

\* whether the writes of the transaction are in the store once the statement
\* at which the handler threw is known
PaymentCommitted(at) == at \in {"none", "readback"}

PostPayments(body, fault) ==
    IF ~ValidPaymentBody(body)
    THEN /\ response' = Respond(400, FALSE, FALSE, "none", 0, FALSE)
         /\ UNCHANGED <<customers, orders, payments,
                        nextCustomerId, nextOrderId, nextPaymentId>>
    ELSE IF fault = "getConnection"
    THEN /\ response' \in { Respond(st, FALSE, FALSE, "getConnection", 0, FALSE) :
                              st \in Rejected }
         /\ UNCHANGED <<customers, orders, payments,
                        nextCustomerId, nextOrderId, nextPaymentId>>
    ELSE
      LET cid     == body.customer_id
          \* the first statement that throws: the injected fault, or the
          \* foreign key of the INSERT when the customer does not exist
          at      == IF fault = "beginTransaction" THEN fault
                     ELSE IF cid \notin DOMAIN customers THEN "insert"
                     ELSE fault
          paid    == payments @@ (nextPaymentId :> PaymentRow(body))
          custs1  == AddBalance(customers, cid, -body.amount)
          settles == ShouldSettle(custs1, cid)
          \* a fault in the settlement UPDATE only happens when it runs
          thrown  == IF at = "settle" /\ ~settles THEN "none" ELSE at
          wrote   == thrown \notin {"beginTransaction", "insert"}
      IN
      /\ UNCHANGED <<nextCustomerId, nextOrderId>>
      /\ nextPaymentId' = IF wrote THEN nextPaymentId + 1 ELSE nextPaymentId
      /\ IF PaymentCommitted(thrown)
         THEN /\ payments' = paid
              /\ customers' = custs1
              /\ orders' = IF settles THEN Settle(orders, cid) ELSE orders
              /\ response' = Respond(IF thrown = "none" THEN 201 ELSE 500,
                                     TRUE, TRUE, thrown, 0, settles)
         ELSE /\ payments' = Rollback(payments, IF wrote THEN paid ELSE payments)
              /\ customers' = Rollback(customers, IF wrote THEN custs1 ELSE customers)
              /\ orders' = Rollback(orders, IF wrote /\ settles THEN Settle(orders, cid)
                                            ELSE orders)
              /\ response' = Respond(500, thrown # "beginTransaction",
                                     FALSE, thrown, 0, FALSE)

PaymentBodies ==
    { b \in [has : {{}, {"customer_id"}, {"amount"}, {"customer_id", "amount"}},
             customer_id : CustomerIdInputs, amount : Amounts] :
        /\ ("customer_id" \notin b.has => b.customer_id = 0)
        /\ ("amount" \notin b.has => b.amount = 0) }

PaymentFaults ==
    {"none", "getConnection", "beginTransaction", "insert", "update", "select",
     "settle", "commit", "readback"}

CreatePayment ==
    \E body \in PaymentBodies : \E fault \in PaymentFaults :
        /\ PostPayments(body, fault)
        /\ (ValidPaymentBody(body) /\ fault # "getConnection")
              => nextPaymentId <= MaxPaymentId
        /\ request' = Request("payments", body)
        /\ payload' = NoPayload
        /\ UNCHANGED <<concVars, screen>>

(* ----------------------- DELETE /customers/:id ------------------------- *)
\* SELECT COUNT(*) AS cnt FROM orders (or payments) WHERE customer_id = ?
CountOf(rows, id) == Cardinality({ r \in DOMAIN rows : rows[r].customer_id = id })

\* variant: the payments of the customer are not counted
HasPaymentsUnchecked(pays, id) == FALSE

\* orders[0].cnt > 0 and payments[0].cnt > 0
HasOrders(ords, id) == CountOf(ords, id) > 0
HasPayments(pays, id) == CountOf(pays, id) > 0

\* variant: the tables carry no foreign key
Unrestricted(ords, pays, id) == FALSE

\* fk_orders_customer and fk_payments_customer, ON DELETE RESTRICT: the store
\* refuses to delete a customer row that an order or a payment references
Restricted(ords, pays, id) == CountOf(ords, id) > 0 \/ CountOf(pays, id) > 0

\* DELETE FROM customers WHERE id = ?
DeleteRow(custs, id) == [c \in DOMAIN custs \ {id} |-> custs[c]]

DeleteCustomers(id) ==
    /\ UNCHANGED <<orders, payments, nextCustomerId, nextOrderId, nextPaymentId>>
    /\ IF HasOrders(orders, id)
       THEN /\ response' = Respond(400, FALSE, FALSE, "none", 0, FALSE)
            /\ payload' = Message("siparisleri var")
            /\ UNCHANGED customers
       ELSE IF HasPayments(payments, id)
       THEN /\ response' = Respond(400, FALSE, FALSE, "none", 0, FALSE)
            /\ payload' = Message("odemeleri var")
            /\ UNCHANGED customers
       ELSE IF id \in DOMAIN customers /\ Restricted(orders, payments, id)
       THEN \* the DELETE statement throws
            /\ response' = Respond(500, FALSE, FALSE, "delete", 0, FALSE)
            /\ payload' = NoPayload
            /\ UNCHANGED customers
       ELSE IF id \notin DOMAIN customers
       THEN \* affectedRows is 0
            /\ response' = Respond(404, FALSE, FALSE, "none", 0, FALSE)
            /\ payload' = Message("Musteri bulunamadi")
            /\ UNCHANGED customers
       ELSE /\ customers' = DeleteRow(customers, id)
            /\ response' = Respond(200, FALSE, TRUE, "none", 0, FALSE)
            /\ payload' = Message("Musteri silindi")

(* ------------------------- PUT /customers/:id -------------------------- *)
\* variant: the row is written anew with the defaults of the table
UpdateRowReplaces(custs, id, body) ==
    [custs EXCEPT ![id] = [name |-> trim(body.name),
                           phone |-> IF "phone" \in body.has /\ body.phone # ""
                                     THEN body.phone ELSE "null",
                           current_balance |-> 0]]

\* UPDATE customers SET name = ?, phone = ? WHERE id = ?
\* with [name.trim(), phone || null, id]
UpdateRow(custs, id, body) ==
    [custs EXCEPT ![id].name = trim(body.name),
                  ![id].phone = IF "phone" \in body.has /\ body.phone # ""
                                THEN body.phone ELSE "null"]

\* result.affectedRows of the UPDATE: the rows the WHERE clause matched (the
\* driver connects with the FOUND_ROWS flag, so a row whose values stay the
\* same counts)
AffectedRows(custs, id) == IF id \in DOMAIN custs THEN 1 ELSE 0

PutCustomers(id, body) ==
    /\ UNCHANGED <<orders, payments, nextCustomerId, nextOrderId, nextPaymentId>>
    /\ IF ~ValidName(body)
       THEN /\ response' = Respond(400, FALSE, FALSE, "none", 0, FALSE)
            /\ payload' = Message("Musteri adi gereklidir")
            /\ UNCHANGED customers
       ELSE IF AffectedRows(customers, id) = 0
       THEN /\ response' = Respond(404, FALSE, FALSE, "none", 0, FALSE)
            /\ payload' = Message("Musteri bulunamadi")
            /\ UNCHANGED customers
       ELSE /\ customers' = UpdateRow(customers, id, body)
            /\ response' = Respond(200, FALSE, TRUE, "none", 0, FALSE)
            /\ payload' = NoPayload

(* ---------------------------- GET /dashboard --------------------------- *)
\* the sum of f over S
RECURSIVE SetSum(_, _)
SetSum(f, S) ==
    IF S = {} THEN 0
    ELSE LET x == CHOOSE y \in S : TRUE IN f[x] + SetSum(f, S \ {x})

\* GET /dashboard: the rows of the first SELECT; every order is of today
TodayOrders(ords) == ords

\* variant: the balances of all customers are summed
DashboardOfAllBalances(todayOrders, custs) ==
    [todayQuantity |-> SetSum([o \in DOMAIN todayOrders |-> todayOrders[o].quantity],
                              DOMAIN todayOrders),
     todayRevenue  |-> SetSum([o \in DOMAIN todayOrders |-> todayOrders[o].total_price],
                              DOMAIN todayOrders),
     todayCustomerCount |->
         Cardinality({ todayOrders[o].customer_id : o \in DOMAIN todayOrders }),
     totalDebt |-> SetSum([c \in DOMAIN custs |-> custs[c].current_balance],
                          DOMAIN custs)]

\* the sums of the two for loops
DashboardOf(todayOrders, custs) ==
    [todayQuantity |-> SetSum([o \in DOMAIN todayOrders |-> todayOrders[o].quantity],
                              DOMAIN todayOrders),
     todayRevenue  |-> SetSum([o \in DOMAIN todayOrders |-> todayOrders[o].total_price],
                              DOMAIN todayOrders),
     todayCustomerCount |->
         Cardinality({ todayOrders[o].customer_id : o \in DOMAIN todayOrders }),
     totalDebt |-> SetSum([c \in DOMAIN custs |-> custs[c].current_balance],
                          { c \in DOMAIN custs : custs[c].current_balance > 0 })]

\* GET /dashboard with no write between its two statements
GetDashboard ==
    /\ payload' = DashboardOf(TodayOrders(orders), customers)
    /\ response' = Respond(200, FALSE, FALSE, "none", 0, FALSE)
    /\ UNCHANGED <<customers, orders, payments,
                   nextCustomerId, nextOrderId, nextPaymentId>>

Next == CreateCustomer \/ CreateOrders \/ CreatePayment

Spec == Init /\ [][Next]_vars

(* ----------------- the handlers without injected failures --------------- *)
\* request bodies of POST /customers with and without a phone
ApiPhones == {"", "5"}

ApiCustomerBodies ==
    { b \in [has : {{}, {"name"}, {"phone"}, {"name", "phone"}},
             name : Names, phone : ApiPhones] :
        /\ ("name" \notin b.has => b.name = <<>>)
        /\ ("phone" \notin b.has => b.phone = "") }

\* batch entries that differ in quantity and price, with a total_price that
\* is not quantity times unit_price, some with a status field of their own,
\* which the handler does not read
ApiOrderEntries ==
    { [customer_id |-> c, quantity |-> e[1], unit_price |-> 4,
       total_price |-> e[2], status |-> e[3]] :
        c \in CustomerIdInputs \ {0}, e \in {<<1, 1, "">>, <<2, 4, "paid">>} }

ApiOrderBodies ==
    { [isArray |-> TRUE, items |-> s] : s \in SeqsUpTo(ApiOrderEntries, MaxBatch) }
      \cup { [isArray |-> FALSE, items |-> <<>>] }

NoFault == [at |-> "none", k |-> 0]

ApiCreateCustomer ==
    \E body \in ApiCustomerBodies :
        /\ PostCustomers(body)
        /\ nextCustomerId' <= MaxCustomers + 1
        /\ request' = Request("customers", body)
        /\ payload' = NoPayload
        /\ UNCHANGED <<concVars, screen>>

ApiCreateOrders ==
    \E body \in ApiOrderBodies :
        /\ PostOrders(body, NoFault)
        /\ nextOrderId' <= MaxOrderId + 1
        /\ request' = Request("orders", body)
        /\ UNCHANGED <<concVars, screen>>

ApiCreatePayment ==
    \E body \in PaymentBodies :
        /\ PostPayments(body, "none")
        /\ ValidPaymentBody(body) => nextPaymentId <= MaxPaymentId
        /\ request' = Request("payments", body)
        /\ payload' = NoPayload
        /\ UNCHANGED <<concVars, screen>>

NextApi == ApiCreateCustomer \/ ApiCreateOrders \/ ApiCreatePayment

SpecApi == Init /\ [][NextApi]_vars

(* ------------- creating and deleting customers that own rows ------------ *)
AccountIds == 1 .. MaxAccounts

AccountsCreate ==
    \E body \in ApiCustomerBodies :
        /\ PostCustomers(body)
        /\ nextCustomerId' <= MaxAccounts + 1
        /\ request' = Request("customers", body)
        /\ payload' = NoPayload
        /\ UNCHANGED <<concVars, screen>>

AccountsDelete ==
    \E id \in AccountIds \cup {MaxAccounts + 1} :
        /\ DeleteCustomers(id)
        /\ request' = Request("delete", [id |-> id])
        /\ UNCHANGED <<concVars, screen>>

AccountsOrder ==
    \E c \in AccountIds :
        LET body == [isArray |-> TRUE,
                     items |-> << [customer_id |-> c, quantity |-> 1,
                                   unit_price |-> 2, total_price |-> 2] >>] IN
        /\ PostOrders(body, NoFault)
        /\ nextOrderId' <= MaxLedger + 1
        /\ request' = Request("orders", body)
        /\ UNCHANGED <<concVars, screen>>

AccountsPayment ==
    \E c \in AccountIds :
        LET body == [has |-> {"customer_id", "amount"}, customer_id |-> c,
                     amount |-> 2] IN
        /\ PostPayments(body, "none")
        /\ nextPaymentId <= MaxLedger
        /\ request' = Request("payments", body)
        /\ payload' = NoPayload
        /\ UNCHANGED <<concVars, screen>>

\* names of an update: absent, blank, plain, padded
UpdateNames == {<<>>, <<" ">>, <<"b">>, <<"b", " ">>}

UpdateBodies ==
    { b \in [has : {{}, {"name"}, {"phone"}, {"name", "phone"}},
             name : UpdateNames, phone : ApiPhones] :
        /\ ("name" \notin b.has => b.name = <<>>)
        /\ ("phone" \notin b.has => b.phone = "") }

AccountsUpdate ==
    \E id \in AccountIds \cup {MaxAccounts + 1}, body \in UpdateBodies :
        /\ PutCustomers(id, body)
        /\ request' = Request("update", [id |-> id, body |-> body])
        /\ UNCHANGED <<concVars, screen>>

AccountsDashboard ==
    /\ GetDashboard
    /\ request' = Request("dashboard", <<>>)
    /\ UNCHANGED <<concVars, screen>>

NextAccounts ==
    \/ AccountsCreate \/ AccountsDelete \/ AccountsUpdate
    \/ AccountsOrder \/ AccountsPayment \/ AccountsDashboard

SpecAccounts == Init /\ [][NextAccounts]_vars

(* ------------- the handlers on several connections at once ------------- *)
(* Every await of a handler is a step. The tables are InnoDB tables: a      *)
(* transaction writes rows that only its own connection sees until COMMIT,  *)
(* an INSERT of a row with a foreign key holds a shared lock on the         *)
(* customer row it names, an UPDATE or DELETE holds an exclusive lock on    *)
(* the rows it changes, and the locks of a transaction last until it ends.  *)
(* A statement that needs a lock another connection holds waits, or throws  *)
(* (lock wait timeout, deadlock victim).                                    *)

\* the rows of a table as a connection sees them: the committed rows, with
\* the rows its open transaction wrote in their place
View(tx, committed) ==
    [k \in DOMAIN committed \cup DOMAIN tx |->
        IF k \in DOMAIN tx THEN tx[k] ELSE committed[k]]

\* the rows of a view that the committed table does not hold
Changed(view, committed) ==
    [k \in { x \in DOMAIN view : x \notin DOMAIN committed \/ view[x] # committed[x] }
        |-> view[k]]

\* conn.query: the customers table as the connection of handler s reads it
ConnCustomers(s) == View(handlers[s].customers, customers)
ConnOrders(s)    == View(handlers[s].orders, orders)
ConnPayments(s)  == View(handlers[s].payments, payments)

\* variant: the SELECT of the balance goes to the pool, not to conn
customerRowsOfPool(s) == customers

\* const [customerRows] = await conn.query('SELECT current_balance ...')
customerRows(s) == ConnCustomers(s)

\* variant: the handler opens no transaction
BeginSkipped(h) == h

\* conn.beginTransaction()
Begin(h) == [h EXCEPT !.began = TRUE]

Others(s) == Clients \ {s}

\* another connection holds an exclusive, or a shared, lock on customer c
HeldX(s, c) == \E t \in Others(s) : c \in handlers[t].xlocks
HeldS(s, c) == \E t \in Others(s) : c \in handlers[t].slocks

\* another connection has uncommitted order rows of customer c
HeldOrders(s, c) ==
    \E t \in Others(s) : \E o \in DOMAIN handlers[t].orders :
        handlers[t].orders[o].customer_id = c

\* a statement of handler s has run: h is the handler after it, and custs,
\* ords, pays are the tables as its connection sees them now
Write(s, h, custs, ords, pays) ==
    IF handlers[s].began
    THEN /\ handlers' = [handlers EXCEPT ![s] =
                [h EXCEPT !.customers = Changed(custs, customers),
                          !.orders = Changed(ords, orders),
                          !.payments = Changed(pays, payments)]]
         /\ UNCHANGED <<customers, orders, payments>>
    ELSE /\ handlers' = [handlers EXCEPT ![s] = h]
         /\ customers' = custs
         /\ orders' = ords
         /\ payments' = pays

\* the locks the statement took last until the transaction ends; outside a
\* transaction they end with the statement
Locked(h, slock, xlock) ==
    IF h.began THEN [h EXCEPT !.slocks = @ \cup slock, !.xlocks = @ \cup xlock]
    ELSE h

ConcOrderBodies ==
    { [isArray |-> TRUE, items |-> s] : s \in
        { << [customer_id |-> 1, quantity |-> 1, unit_price |-> 2, total_price |-> 2] >>,
          << [customer_id |-> 1, quantity |-> 1, unit_price |-> 2, total_price |-> 2],
             [customer_id |-> 1, quantity |-> 1, unit_price |-> 2, total_price |-> 2] >>,
          << [customer_id |-> 1, quantity |-> 1, unit_price |-> 2, total_price |-> 2],
             [customer_id |-> 2, quantity |-> 1, unit_price |-> 2, total_price |-> 2] >> } }

ConcPaymentBodies ==
    { [has |-> {"customer_id", "amount"}, customer_id |-> 1, amount |-> 2] }

\* the inserts that the batches in flight have still to make
RECURSIVE Reserved(_)
Reserved(S) ==
    IF S = {} THEN 0
    ELSE LET t == CHOOSE x \in S : TRUE IN
         (IF handlers[t].op = "orders"
          THEN Len(handlers[t].body.items) - Len(handlers[t].ids) ELSE 0)
         + Reserved(S \ {t})

\* const conn = await pool.getConnection(): the request holds a connection
\* that it has not released
getConnection == [acquired |-> 1, released |-> 0, via |-> "none"]

\* variant: conn.release() stands after the commit, inside the try
releaseInTry(p, via) ==
    IF via = "commit" THEN [p EXCEPT !.released = @ + 1, !.via = via]
    ELSE [p EXCEPT !.via = via]

\* finally { conn.release() }, reached on the path via
release(p, via) == [p EXCEPT !.released = @ + 1, !.via = via]

\* POST /orders up to the first statement: the body is valid, a connection
\* is obtained and the transaction begun
StartOrders(s) ==
    /\ handlers[s].op = "idle"
    /\ \E body \in ConcOrderBodies :
          /\ ValidOrdersBody(body)
          /\ nextOrderId + Reserved(Clients) + Len(body.items) <= MaxOrderId + 1
          /\ handlers' = [handlers EXCEPT ![s] =
                 Begin([Idle EXCEPT !.op = "orders", !.pc = "insert",
                                    !.body = body, !.i = 1])]
    /\ pool' = [pool EXCEPT ![s] = getConnection]
    /\ UNCHANGED <<customers, orders, payments, nextCustomerId, nextOrderId,
                   nextPaymentId, request, response, screen, payload, log, aborted>>

\* INSERT INTO orders for entry i
InsertOrder(s) ==
    LET h == handlers[s]
        e == h.body.items[h.i]
    IN
    /\ h.op = "orders" /\ h.pc = "insert"
    /\ ~HeldX(s, e.customer_id)
    /\ UNCHANGED <<nextCustomerId, nextPaymentId, request, response, screen, pool, payload,
                   log, aborted>>
    /\ IF e.customer_id \notin DOMAIN ConnCustomers(s)
       THEN \* the foreign key fails and the statement throws
            /\ handlers' = [handlers EXCEPT ![s].pc = "rollback"]
            /\ UNCHANGED <<customers, orders, payments, nextOrderId>>
       ELSE /\ nextOrderId' = nextOrderId + 1
            /\ Write(s, Locked([h EXCEPT !.pc = "update",
                                          !.ids = Append(@, nextOrderId)],
                                {e.customer_id}, {}),
                     ConnCustomers(s),
                     ConnOrders(s) @@ (nextOrderId :> OrderRow(e)),
                     ConnPayments(s))

\* UPDATE customers SET current_balance = current_balance + ? for entry i
UpdateBalance(s) ==
    LET h == handlers[s]
        e == h.body.items[h.i]
    IN
    /\ h.op = "orders" /\ h.pc = "update"
    /\ ~HeldX(s, e.customer_id) /\ ~HeldS(s, e.customer_id)
    /\ UNCHANGED <<nextCustomerId, nextOrderId, nextPaymentId, request, response, screen, pool,
                   payload, log, aborted>>
    /\ Write(s, Locked([h EXCEPT !.pc = IF h.i = Len(h.body.items)
                                        THEN "commit" ELSE "insert",
                                  !.i = @ + 1],
                        {}, {e.customer_id}),
             AddBalance(ConnCustomers(s), e.customer_id, e.total_price),
             ConnOrders(s),
             ConnPayments(s))

\* POST /payments up to the first statement
StartPayment(s) ==
    /\ handlers[s].op = "idle"
    /\ nextPaymentId + Cardinality({ t \in Clients :
            handlers[t].op = "payments" /\ handlers[t].ids = <<>> }) <= MaxPaymentId
    /\ \E body \in ConcPaymentBodies :
          /\ ValidPaymentBody(body)
          /\ handlers' = [handlers EXCEPT ![s] =
                 Begin([Idle EXCEPT !.op = "payments", !.pc = "insert",
                                    !.body = body])]
    /\ pool' = [pool EXCEPT ![s] = getConnection]
    /\ UNCHANGED <<customers, orders, payments, nextCustomerId, nextOrderId,
                   nextPaymentId, request, response, screen, payload, log, aborted>>

\* INSERT INTO payments
InsertPayment(s) ==
    LET h == handlers[s]
        cid == h.body.customer_id
    IN
    /\ h.op = "payments" /\ h.pc = "insert"
    /\ ~HeldX(s, cid)
    /\ UNCHANGED <<nextCustomerId, nextOrderId, request, response, screen, pool, payload,
                   log, aborted>>
    /\ IF cid \notin DOMAIN ConnCustomers(s)
       THEN /\ handlers' = [handlers EXCEPT ![s].pc = "rollback"]
            /\ UNCHANGED <<customers, orders, payments, nextPaymentId>>
       ELSE /\ nextPaymentId' = nextPaymentId + 1
            /\ Write(s, Locked([h EXCEPT !.pc = "update",
                                          !.ids = Append(@, nextPaymentId)],
                                {cid}, {}),
                     ConnCustomers(s),
                     ConnOrders(s),
                     ConnPayments(s) @@ (nextPaymentId :> PaymentRow(h.body)))

\* UPDATE customers SET current_balance = current_balance - ?
UpdatePayment(s) ==
    LET h == handlers[s]
        cid == h.body.customer_id
    IN
    /\ h.op = "payments" /\ h.pc = "update"
    /\ ~HeldX(s, cid) /\ ~HeldS(s, cid)
    /\ UNCHANGED <<nextCustomerId, nextOrderId, nextPaymentId, request, response, screen, pool,
                   payload, log, aborted>>
    /\ Write(s, Locked([h EXCEPT !.pc = "select"], {}, {cid}),
             AddBalance(ConnCustomers(s), cid, -h.body.amount),
             ConnOrders(s),
             ConnPayments(s))

\* SELECT current_balance FROM customers, and the test on what it returned;
\* the handler keeps the balance it read for the record of its commit
SelectBalance(s) ==
    LET h == handlers[s] IN
    /\ h.op = "payments" /\ h.pc = "select"
    /\ handlers' = [handlers EXCEPT
            ![s].pc = IF ShouldSettle(customerRows(s), h.body.customer_id)
                      THEN "settle" ELSE "commit",
            ![s].read = [balance |->
                            customerRows(s)[h.body.customer_id].current_balance]]
    /\ UNCHANGED <<customers, orders, payments, nextCustomerId, nextOrderId,
                   nextPaymentId, request, response, screen, pool, payload, log, aborted>>

\* UPDATE orders SET status = 'paid' WHERE customer_id = ? AND status = 'pending'
SettleOrders(s) ==
    LET h == handlers[s]
        cid == h.body.customer_id
    IN
    /\ h.op = "payments" /\ h.pc = "settle"
    /\ ~HeldOrders(s, cid)
    /\ UNCHANGED <<nextCustomerId, nextOrderId, nextPaymentId, request, response, screen, pool,
                   payload, log, aborted>>
    /\ Write(s, [h EXCEPT !.pc = "commit"],
             ConnCustomers(s),
             Settle(ConnOrders(s), cid),
             ConnPayments(s))

\* conn.commit(), the response, conn.release()
Commit(s) ==
    LET h == handlers[s] IN
    /\ h.op \in {"orders", "payments"} /\ h.pc = "commit"
    /\ customers' = ConnCustomers(s)
    /\ orders' = ConnOrders(s)
    /\ payments' = ConnPayments(s)
    /\ log' = Append(log, [op |-> h.op, body |-> h.body, ids |-> h.ids,
                            read |-> h.read])
    /\ handlers' = [handlers EXCEPT ![s] = Idle]
    /\ pool' = [pool EXCEPT ![s] = release(@, "commit")]
    /\ UNCHANGED <<nextCustomerId, nextOrderId, nextPaymentId, request, response, screen,
                   payload, aborted>>

\* a statement that waits for a lock throws instead
Timeout(s) ==
    LET h == handlers[s] IN
    /\ \/ /\ h.op = "orders" /\ h.pc = "insert"
          /\ HeldX(s, h.body.items[h.i].customer_id)
       \/ /\ h.op = "orders" /\ h.pc = "update"
          /\ \/ HeldX(s, h.body.items[h.i].customer_id)
             \/ HeldS(s, h.body.items[h.i].customer_id)
       \/ /\ h.op = "payments" /\ h.pc = "insert"
          /\ HeldX(s, h.body.customer_id)
       \/ /\ h.op = "payments" /\ h.pc = "update"
          /\ HeldX(s, h.body.customer_id) \/ HeldS(s, h.body.customer_id)
    /\ handlers' = [handlers EXCEPT ![s].pc = "rollback"]
    /\ UNCHANGED <<customers, orders, payments, nextCustomerId, nextOrderId,
                   nextPaymentId, request, response, screen, pool, payload, log, aborted>>

\* the catch block: conn.rollback(), the 500, conn.release()
Abort(s) ==
    LET h == handlers[s] IN
    /\ h.op \in {"orders", "payments"} /\ h.pc = "rollback"
    /\ customers' = Rollback(customers, ConnCustomers(s))
    /\ orders' = Rollback(orders, ConnOrders(s))
    /\ payments' = Rollback(payments, ConnPayments(s))
    /\ aborted' = IF h.op = "orders" THEN aborted \cup { h.ids[k] : k \in DOMAIN h.ids }
                  ELSE aborted
    /\ handlers' = [handlers EXCEPT ![s] = Idle]
    /\ pool' = [pool EXCEPT ![s] = release(@, "rollback")]
    /\ UNCHANGED <<nextCustomerId, nextOrderId, nextPaymentId, request, response, screen,
                   payload, log>>

\* conn.rollback() throws because the connection is lost: the catch block is
\* left by the throw, the finally block still runs conn.release(), and the
\* store discards the transaction of the lost connection
RollbackFails(s) ==
    LET h == handlers[s] IN
    /\ h.op \in {"orders", "payments"} /\ h.pc = "rollback"
    /\ customers' = Rollback(customers, ConnCustomers(s))
    /\ orders' = Rollback(orders, ConnOrders(s))
    /\ payments' = Rollback(payments, ConnPayments(s))
    /\ aborted' = IF h.op = "orders" THEN aborted \cup { h.ids[k] : k \in DOMAIN h.ids }
                  ELSE aborted
    /\ handlers' = [handlers EXCEPT ![s] = Idle]
    /\ pool' = [pool EXCEPT ![s] = release(@, "rollbackFailed")]
    /\ UNCHANGED <<nextCustomerId, nextOrderId, nextPaymentId, request, response, screen,
                   payload, log>>

\* DELETE /customers/:id, statement by statement on the pool
StartDelete(s) ==
    /\ handlers[s].op = "idle"
    /\ \E id \in DOMAIN customers :
          handlers' = [handlers EXCEPT ![s] =
              [Idle EXCEPT !.op = "delete", !.pc = "countOrders",
                           !.body = [id |-> id]]]
    /\ UNCHANGED <<customers, orders, payments, nextCustomerId, nextOrderId,
                   nextPaymentId, request, response, screen, pool, payload, log, aborted>>

CountOrders(s) ==
    LET h == handlers[s] IN
    /\ h.op = "delete" /\ h.pc = "countOrders"
    /\ handlers' = [handlers EXCEPT ![s] =
            IF HasOrders(orders, h.body.id) THEN Idle
            ELSE [h EXCEPT !.pc = "countPayments"]]
    /\ UNCHANGED <<customers, orders, payments, nextCustomerId, nextOrderId,
                   nextPaymentId, request, response, screen, pool, payload, log, aborted>>

CountPayments(s) ==
    LET h == handlers[s] IN
    /\ h.op = "delete" /\ h.pc = "countPayments"
    /\ handlers' = [handlers EXCEPT ![s] =
            IF HasPayments(payments, h.body.id) THEN Idle
            ELSE [h EXCEPT !.pc = "delete"]]
    /\ UNCHANGED <<customers, orders, payments, nextCustomerId, nextOrderId,
                   nextPaymentId, request, response, screen, pool, payload, log, aborted>>

\* DELETE FROM customers WHERE id = ?: it waits for the locks on the row,
\* throws when a committed order or payment references it, and else removes it
DeleteStatement(s) ==
    LET h == handlers[s]
        id == h.body.id
    IN
    /\ h.op = "delete" /\ h.pc = "delete"
    /\ ~HeldX(s, id) /\ ~HeldS(s, id)
    /\ handlers' = [handlers EXCEPT ![s] = Idle]
    /\ IF id \in DOMAIN customers /\ ~Restricted(orders, payments, id)
       THEN /\ customers' = DeleteRow(customers, id)
            /\ log' = Append(log, [op |-> "delete", body |-> h.body, ids |-> <<>>])
       ELSE UNCHANGED <<customers, log>>
    /\ UNCHANGED <<orders, payments, nextCustomerId, nextOrderId, nextPaymentId,
                   request, response, screen, pool, payload, aborted>>

StartDashboard(s) ==
    /\ handlers[s].op = "idle"
    /\ handlers' = [handlers EXCEPT ![s] =
            [Idle EXCEPT !.op = "dashboard", !.pc = "todayOrders"]]
    /\ UNCHANGED <<customers, orders, payments, nextCustomerId, nextOrderId,
                   nextPaymentId, request, response, screen, pool, payload, log, aborted>>

\* SELECT quantity, total_price, customer_id FROM orders; the handler keeps
\* the rows, and the record keeps what the store held when they were read
SelectTodayOrders(s) ==
    LET h == handlers[s] IN
    /\ h.op = "dashboard" /\ h.pc = "todayOrders"
    /\ handlers' = [handlers EXCEPT ![s] =
            [h EXCEPT !.pc = "customers",
                      !.read = [todayOrders |-> TodayOrders(orders),
                                commits |-> Len(log),
                                before |-> DashboardOf(TodayOrders(orders), customers)]]]
    /\ UNCHANGED <<customers, orders, payments, nextCustomerId, nextOrderId,
                   nextPaymentId, request, response, screen, pool, payload, log, aborted>>

\* SELECT current_balance FROM customers WHERE current_balance > 0, res.json
SelectDebt(s) ==
    LET h == handlers[s] IN
    /\ h.op = "dashboard" /\ h.pc = "customers"
    /\ handlers' = [handlers EXCEPT ![s] =
            [h EXCEPT !.pc = "sent",
                      !.read = [sent |-> DashboardOf(h.read.todayOrders, customers),
                                commits |-> Len(log) - h.read.commits,
                                before |-> h.read.before,
                                after |-> DashboardOf(TodayOrders(orders), customers)]]]
    /\ UNCHANGED <<customers, orders, payments, nextCustomerId, nextOrderId,
                   nextPaymentId, request, response, screen, pool, payload, log, aborted>>

\* the response is with the client
Close(s) ==
    /\ handlers[s].pc = "sent"
    /\ handlers' = [handlers EXCEPT ![s] = Idle]
    /\ UNCHANGED <<customers, orders, payments, nextCustomerId, nextOrderId,
                   nextPaymentId, request, response, screen, pool, payload, log, aborted>>

\* the store after a first customer was created
FirstCustomer ==
    (1 :> [name |-> <<"a">>, phone |-> "null", current_balance |-> 0])

InitConc ==
    /\ customers = FirstCustomer
    /\ orders = <<>>
    /\ payments = <<>>
    /\ nextCustomerId = 2
    /\ nextOrderId = 1
    /\ nextPaymentId = 1
    /\ request = Request("none", <<>>)
    /\ response = NoResponse
    /\ payload = NoPayload
    /\ handlers = [s \in Clients |-> Idle]
    /\ log = <<>>
    /\ aborted = {}
    /\ pool = [s \in Clients |-> NoConnection]
    /\ screen = NoScreen

NextConc ==
    \E s \in Clients :
        \/ StartOrders(s) \/ InsertOrder(s) \/ UpdateBalance(s)
        \/ StartPayment(s) \/ InsertPayment(s) \/ UpdatePayment(s)
        \/ SelectBalance(s) \/ SettleOrders(s)
        \/ Commit(s) \/ Timeout(s) \/ Abort(s) \/ RollbackFails(s)
        \/ StartDelete(s) \/ CountOrders(s) \/ CountPayments(s) \/ DeleteStatement(s)
        \/ StartDashboard(s) \/ SelectTodayOrders(s) \/ SelectDebt(s) \/ Close(s)

SpecConc == InitConc /\ [][NextConc]_vars

(* --------------------------- the orders screen -------------------------- *)
(* The screen lists the customers it fetched, keeps a draft (quantity and   *)
(* unit price) per customer in the order store, and on confirmation posts   *)
(* one batch built from the list and the drafts of the render in which the  *)
(* submit button was pressed. The server answers each batch in one step.    *)

\* quantities typed into a row: 0 (also what an unreadable or negative
\* input becomes) and 2
QuantityInputs == {0, 2}

\* unit prices typed into a row: 0.02
UnitPriceInputs == {4}

\* the unit price of a draft whose price was never edited
DEFAULT_UNIT_PRICE == 2

\* values of generateUUID(): random, so two calls may give the same value
Uuids == {"g1", "g2"}

\* setQuantity and setUnitPrice of the order store
setQuantity(drafts, id, n) ==
    (id :> [quantity |-> n,
            unitPrice |-> IF id \in DOMAIN drafts THEN drafts[id].unitPrice
                          ELSE DEFAULT_UNIT_PRICE]) @@ drafts

setUnitPrice(drafts, id, price) ==
    (id :> [quantity |-> IF id \in DOMAIN drafts THEN drafts[id].quantity ELSE 0,
            unitPrice |-> price]) @@ drafts

\* clearDrafts of the order store
clearDrafts == <<>>

\* the rows of GET /customers (ORDER BY name; the customers here bear one
\* name, and are listed by id)
RECURSIVE Listed(_)
Listed(S) ==
    IF S = {} THEN <<>>
    ELSE LET c == CHOOSE x \in S : \A y \in S : x <= y IN <<c>> \o Listed(S \ {c})

\* customers.filter(draft && draft.quantity > 0)
Drafted(custs, drafts) ==
    SelectSeq(custs, LAMBDA c : c \in DOMAIN drafts /\ drafts[c].quantity > 0)

\* summary.customerCount
customerCount(custs, drafts) == Len(Drafted(custs, drafts))

\* variant: a row for every listed customer, whatever its draft
RowsOfEveryCustomer(custs, drafts, orderGroupId) ==
    [ i \in 1 .. Len(custs) |->
        LET draft == IF custs[i] \in DOMAIN drafts THEN drafts[custs[i]]
                     ELSE [quantity |-> 0, unitPrice |-> DEFAULT_UNIT_PRICE] IN
        [customer_id |-> custs[i], quantity |-> draft.quantity,
         unit_price |-> draft.unitPrice,
         total_price |-> draft.quantity * draft.unitPrice,
         order_group_id |-> orderGroupId] ]

\* const rows = customers.filter(...).map(...)
Rows(custs, drafts, orderGroupId) ==
    LET kept == Drafted(custs, drafts) IN
    [ i \in 1 .. Len(kept) |->
        LET draft == drafts[kept[i]] IN
        [customer_id |-> kept[i], quantity |-> draft.quantity,
         unit_price |-> draft.unitPrice,
         total_price |-> draft.quantity * draft.unitPrice,
         order_group_id |-> orderGroupId] ]

\* fetchCustomers: the list becomes the customers of the store
ScreenFetch ==
    /\ screen' = [screen EXCEPT !.customers = Listed(DOMAIN customers)]
    /\ UNCHANGED <<customers, orders, payments, nextCustomerId, nextOrderId,
                   nextPaymentId, request, response, payload, concVars>>

\* the stepper and the quantity input of a row
ScreenSetQuantity ==
    /\ screen.alert = "none"
    /\ \E i \in DOMAIN screen.customers, n \in QuantityInputs :
          screen' = [screen EXCEPT
                       !.draftOrders = setQuantity(@, screen.customers[i], n)]
    /\ UNCHANGED <<customers, orders, payments, nextCustomerId, nextOrderId,
                   nextPaymentId, request, response, payload, concVars>>

\* the price input of a row
ScreenSetUnitPrice ==
    /\ screen.alert = "none"
    /\ \E i \in DOMAIN screen.customers, price \in UnitPriceInputs :
          screen' = [screen EXCEPT
                       !.draftOrders = setUnitPrice(@, screen.customers[i], price)]
    /\ UNCHANGED <<customers, orders, payments, nextCustomerId, nextOrderId,
                   nextPaymentId, request, response, payload, concVars>>

\* handleSubmit: with no drafted customer an alert, else the confirmation
\* dialog, whose button holds submitOrders of this render
ScreenHandleSubmit ==
    /\ screen.alert = "none" /\ ~screen.submitting
    /\ screen' =
          IF customerCount(screen.customers, screen.draftOrders) = 0
          THEN [screen EXCEPT !.alert = "empty"]
          ELSE [screen EXCEPT !.alert = "confirm", !.posts = 0,
                              !.closure = [customers |-> screen.customers,
                                           draftOrders |-> screen.draftOrders]]
    /\ UNCHANGED <<customers, orders, payments, nextCustomerId, nextOrderId,
                   nextPaymentId, request, response, payload, concVars>>

\* the cancel button of the confirmation dialog, and the button of an alert;
\* the request that led to the alert is over
ScreenDismiss ==
    /\ screen.alert # "none"
    /\ screen' = [screen EXCEPT !.alert = "none", !.closure = <<>>]
    /\ request' = Request("none", <<>>)
    /\ response' = NoResponse
    /\ payload' = NoPayload
    /\ UNCHANGED <<customers, orders, payments, nextCustomerId, nextOrderId,
                   nextPaymentId, concVars>>

\* what submitOrders does with the outcome of createOrders: on success the
\* drafts are cleared, on a thrown error the error alert is shown; while the
\* server sends nothing the await does not return, unless the connection
\* breaks and fetch throws
Outcomes(status) ==
    IF status = 201
    THEN { [screen EXCEPT !.draftOrders = clearDrafts, !.alert = "success",
                          !.submitting = FALSE, !.closure = <<>>, !.posts = @ + 1] }
    ELSE { [screen EXCEPT !.alert = "error", !.submitting = FALSE,
                          !.closure = <<>>, !.posts = @ + 1] }
           \cup (IF status = 0
                 THEN { [screen EXCEPT !.alert = "none", !.submitting = TRUE,
                                       !.closure = <<>>, !.posts = @ + 1] }
                 ELSE {})

\* the confirm button: submitOrders, one call of createOrders
ScreenSubmitOrders ==
    /\ screen.alert = "confirm"
    /\ \E orderGroupId \in Uuids :
          LET body == [isArray |-> TRUE,
                       items |-> Rows(screen.closure.customers,
                                      screen.closure.draftOrders, orderGroupId)] IN
          \E fault \in OrderFaults(body) :
              /\ PostOrders(body, fault)
              /\ nextOrderId' <= MaxOrderId + 1
              /\ request' = Request("orders", body)
              /\ screen' \in Outcomes(response'.status)
    /\ UNCHANGED concVars

\* a customer is deleted on the customers screen
ScreenDelete ==
    /\ screen.alert = "none"
    /\ \E id \in DOMAIN customers :
          /\ DeleteCustomers(id)
          /\ request' = Request("delete", [id |-> id])
    /\ UNCHANGED <<concVars, screen>>

InitScreen ==
    /\ customers = [c \in AccountIds |->
                      [name |-> <<"a">>, phone |-> "null", current_balance |-> 0]]
    /\ orders = <<>>
    /\ payments = <<>>
    /\ nextCustomerId = MaxAccounts + 1
    /\ nextOrderId = 1
    /\ nextPaymentId = 1
    /\ request = Request("none", <<>>)
    /\ response = NoResponse
    /\ payload = NoPayload
    /\ handlers = [s \in Clients |-> Idle]
    /\ log = <<>>
    /\ aborted = {}
    /\ pool = [s \in Clients |-> NoConnection]
    /\ screen = NoScreen

NextScreen ==
    \/ ScreenFetch \/ ScreenSetQuantity \/ ScreenSetUnitPrice
    \/ ScreenHandleSubmit \/ ScreenDismiss \/ ScreenSubmitOrders \/ ScreenDelete

SpecScreen == InitScreen /\ [][NextScreen]_vars

(* ============================ properties =============================== *)
OrdersOf(ords, c) == { o \in DOMAIN ords : ords[o].customer_id = c }
PaymentsOf(pays, c) == { p \in DOMAIN pays : pays[p].customer_id = c }
PendingOf(ords, c) == { o \in OrdersOf(ords, c) : ords[o].status = "pending" }

OrderTotal(c) == SetSum([o \in DOMAIN orders |-> orders[o].total_price], OrdersOf(orders, c))
PaymentTotal(c) == SetSum([p \in DOMAIN payments |-> payments[p].amount], PaymentsOf(payments, c))

IsOrders   == request.op = "orders"
IsPayments == request.op = "payments"

\* C1: every customer's current_balance equals the sum of total_price over the
\* customer's orders minus the sum of amount over the customer's payments.
C1_BalanceEqualsLedger ==
    \A c \in DOMAIN customers :
        customers[c].current_balance = OrderTotal(c) - PaymentTotal(c)

\* C2: when an INSERT or a balance UPDATE of a batch order creation fails, at
\* any entry k, the orders and every customer's current_balance are after the
\* call what they were before it.
C2_FailedBatchRestoresStore ==
    [][ (IsOrders' /\ response'.status = 500 /\ response'.fault \in {"insert", "update"})
          => (orders' = orders /\ customers' = customers) ]_vars

\* C2 witness: a batch failed at its second entry, after the first entry had
\* been inserted and its balance incremented inside the transaction.
C2_Witness ==
    /\ IsOrders /\ response.status = 500
    /\ response.fault = "insert" /\ response.k = 2
    /\ request.body.n = 2
    /\ DOMAIN customers # {}

\* C3: right after a successful payment creation for customer c, if c's
\* current_balance is <= 0 then every order of c that was pending before the
\* payment is paid and no order of c is pending.
C3_SettlementClearsAllPending ==
    [][ (/\ IsPayments' /\ response'.status = 201
         /\ customers'[request'.body.customer_id].current_balance <= 0)
          => /\ PendingOf(orders', request'.body.customer_id) = {}
             /\ \A o \in PendingOf(orders, request'.body.customer_id) :
                    o \in DOMAIN orders' /\ orders'[o].status = "paid" ]_vars

\* C3 witness: one payment of 0.02 brought the balance to exactly 0 and paid
\* two orders of 0.01 each, neither of which it matches.
C3_Witness ==
    /\ IsPayments /\ response.status = 201 /\ response.settled
    /\ request.body.amount = 4
    /\ customers[request.body.customer_id].current_balance = 0
    /\ \E o1, o2 \in OrdersOf(orders, request.body.customer_id) :
          /\ o1 # o2
          /\ orders[o1].status = "paid" /\ orders[o2].status = "paid"
          /\ orders[o1].total_price = 2 /\ orders[o2].total_price = 2

\* C4: a successful payment creation that leaves c's current_balance > 0
\* changes the status of no order and lowers c's current_balance by exactly
\* the payment amount.
C4_PartialPaymentLowersByAmount ==
    [][ (/\ IsPayments' /\ response'.status = 201
         /\ customers'[request'.body.customer_id].current_balance > 0)
          => /\ orders' = orders
             /\ customers'[request'.body.customer_id].current_balance
                  = customers[request'.body.customer_id].current_balance
                      - request'.body.amount ]_vars

\* C5 as stated: in every committed state a customer whose current_balance
\* is <= 0 has no order with status pending.
C5_NoPendingInCredit ==
    \A c \in DOMAIN customers :
        customers[c].current_balance <= 0 => PendingOf(orders, c) = {}

Stranded(custs, ords, c) ==
    c \in DOMAIN custs /\ custs[c].current_balance <= 0 /\ PendingOf(ords, c) # {}

\* C5 amended: a customer whose current_balance is <= 0 has a pending order
\* only when a committed batch order creation has just inserted an order for
\* that customer, or when the customer was already in that situation and the
\* step is not a committed payment for that customer. Payment creation never
\* leaves a customer in credit with a pending order.
C5_PendingInCreditOnlyFromOrders ==
    [][ \A c \in DOMAIN customers' :
          Stranded(customers', orders', c)
            => \/ /\ IsOrders' /\ response'.status = 201
                  /\ \E o \in DOMAIN orders' \ DOMAIN orders :
                        orders'[o].customer_id = c
               \/ /\ Stranded(customers, orders, c)
                  /\ ~(/\ IsPayments' /\ response'.committed
                       /\ request'.body.customer_id = c) ]_vars

\* C5 witness: a batch has just committed for a customer in credit, whose new
\* order is pending while the balance is still <= 0.
C5_Witness ==
    /\ IsOrders /\ response.status = 201
    /\ \E c \in DOMAIN customers :
          /\ Stranded(customers, orders, c)
          /\ PaymentsOf(payments, c) # {}

\* C6: whenever payment creation answers with an error, the store holds no
\* new payment row, no balance has changed and no order status has changed.
C6_FailedPaymentLeavesNoTrace ==
    [][ (IsPayments' /\ response'.status \in {400, 500})
          => (payments' = payments /\ customers' = customers /\ orders' = orders) ]_vars

\* C7: an order is never removed, a paid order stays paid, and a status
\* changes only in the settlement step of a committed payment creation for
\* the order's customer.
C7_PaidStaysPaid ==
    [][ \A o \in DOMAIN orders :
          /\ o \in DOMAIN orders'
          /\ (orders[o].status = "paid" => orders'[o].status = "paid")
          /\ (orders'[o].status # orders[o].status
                => /\ IsPayments' /\ response'.committed /\ response'.settled
                   /\ request'.body.customer_id = orders[o].customer_id) ]_vars

\* C7 witness: a customer has an order that an earlier payment settled, and a
\* later payment for the same customer has committed and settled again.
C7_Witness ==
    /\ IsPayments /\ response.status = 201 /\ response.settled
    /\ Cardinality(PaymentsOf(payments, request.body.customer_id)) = 2
    /\ \E o1, o2 \in OrdersOf(orders, request.body.customer_id) :
          o1 < o2 /\ orders[o1].status = "paid" /\ orders[o2].status = "paid"

\* C8: every recorded payment has an amount strictly greater than 0.
C8_PaymentsArePositive ==
    \A p \in DOMAIN payments : payments[p].amount > 0

\* C9: a payment request whose customer_id or amount is missing or falsy is
\* answered 400 before any transaction is opened, and payments, balances and
\* order statuses are unchanged.
C9_FalsyPaymentRejected ==
    [][ (/\ IsPayments'
         /\ (Falsy(request'.body, "customer_id") \/ Falsy(request'.body, "amount")))
          => /\ response'.status = 400 /\ ~response'.began
             /\ payments' = payments /\ customers' = customers /\ orders' = orders ]_vars

\* C9 witness: a payment of amount 0 for an existing customer with a pending
\* order was rejected.
C9_Witness ==
    /\ IsPayments /\ response.status = 400
    /\ request.body.has = {"customer_id", "amount"}
    /\ request.body.amount = 0
    /\ PendingOf(orders, request.body.customer_id) # {}

\* C10: a batch order creation whose body is an empty array or not an array
\* is answered 400, creates no order and changes no balance.
C10_EmptyBatchRejected ==
    [][ (IsOrders' /\ (~request'.body.isArray \/ request'.body.n = 0))
          => /\ response'.status = 400
             /\ orders' = orders /\ customers' = customers
             /\ nextOrderId' = nextOrderId ]_vars

\* C10 witness: an empty array was rejected while a customer existed.
C10_Witness ==
    /\ IsOrders /\ response.status = 400
    /\ request.body.isArray /\ request.body.n = 0
    /\ DOMAIN customers # {}

\* C11: a successful batch of n entries returns the count n and n ids; the
\* i-th id is a new id, the row stored under it is the row of the i-th entry,
\* and no id is returned twice.
C11_BatchReturnsIdsInInputOrder ==
    [][ (request'.op = "orders" /\ response'.status = 201) =>
          LET items == request'.body.items
              ids   == payload'.ids
          IN /\ payload'.count = Len(items)
             /\ Len(ids) = Len(items)
             /\ \A i \in 1 .. Len(ids) :
                   /\ ids[i] \notin DOMAIN orders
                   /\ ids[i] \in DOMAIN orders'
                   /\ orders'[ids[i]].customer_id = items[i].customer_id
                   /\ orders'[ids[i]].quantity = items[i].quantity
                   /\ orders'[ids[i]].total_price = Round2(items[i].total_price)
             /\ \A i, j \in 1 .. Len(ids) : i # j => ids[i] # ids[j]
      ]_vars

\* a batch of two entries of different quantity was answered with two ids
C11_Witness ==
    /\ request.op = "orders" /\ response.status = 201
    /\ Len(payload.ids) = 2
    /\ request.body.items[1].quantity # request.body.items[2].quantity
    /\ orders[payload.ids[1]].quantity = request.body.items[1].quantity

\* C12: every order row a committed batch created is pending, whatever the
\* balance of its customer and whatever else the entry carried.
C12_NewOrdersArePending ==
    [][ (request'.op = "orders" /\ response'.committed) =>
          \A o \in DOMAIN orders' \ DOMAIN orders : orders'[o].status = "pending"
      ]_vars

\* a committed batch whose entry said status paid, for a customer whose
\* balance is not positive after the batch
C12_Witness ==
    /\ request.op = "orders" /\ response.committed
    /\ \E i \in 1 .. Len(request.body.items) :
          LET e == request.body.items[i] IN
          /\ e.status = "paid"
          /\ customers[e.customer_id].current_balance <= 0
          /\ orders[payload.ids[i]].status = "pending"

\* C13: deleting a customer that owns an order, or else a payment, is refused
\* as a conflict (the orders are looked at first) and removes nothing; an id
\* that names no customer is not found; a customer that owns neither is
\* removed, and nothing else is.
C13_DeleteGuard ==
    [][ request'.op = "delete" =>
          LET id == request'.body.id
              ownsOrder   == \E o \in DOMAIN orders : orders[o].customer_id = id
              ownsPayment == \E q \in DOMAIN payments : payments[q].customer_id = id
          IN /\ orders' = orders /\ payments' = payments
             /\ ownsOrder =>
                   /\ response'.status = 400
                   /\ payload'.message = "siparisleri var"
                   /\ customers' = customers
             /\ (~ownsOrder /\ ownsPayment) =>
                   /\ response'.status = 400
                   /\ payload'.message = "odemeleri var"
                   /\ customers' = customers
             /\ (~ownsOrder /\ ~ownsPayment /\ id \notin DOMAIN customers) =>
                   /\ response'.status = 404
                   /\ customers' = customers
             /\ (~ownsOrder /\ ~ownsPayment /\ id \in DOMAIN customers) =>
                   /\ response'.status = 200
                   /\ DOMAIN customers' = DOMAIN customers \ {id}
                   /\ \A c \in DOMAIN customers' : customers'[c] = customers[c]
      ]_vars

\* a delete was refused for a customer that owns a payment and no order,
\* while another customer is in the store
C13_Witness ==
    /\ request.op = "delete" /\ response.status = 400
    /\ payload.message = "odemeleri var"
    /\ request.body.id \in DOMAIN customers
    /\ Cardinality(DOMAIN customers) = 2
    /\ \E q \in DOMAIN payments : payments[q].customer_id = request.body.id

\* C20: a request without a name, or with a name that is empty once trimmed,
\* is rejected and creates nothing; any other request adds one customer with
\* the trimmed name, the phone if one was given, and balance 0, and leaves
\* the customers, orders and payments that exist as they are.
C20_CreateCustomer ==
    [][ request'.op = "customers" =>
          LET b == request'.body
              stripped == IF "name" \in b.has THEN trim(b.name) ELSE <<>>
          IN /\ orders' = orders /\ payments' = payments
             /\ \A c \in DOMAIN customers :
                   c \in DOMAIN customers' /\ customers'[c] = customers[c]
             /\ IF stripped = <<>>
                THEN /\ response'.status = 400
                     /\ customers' = customers
                ELSE /\ response'.status = 201
                     /\ \E id \in DOMAIN customers' \ DOMAIN customers :
                           /\ DOMAIN customers' = DOMAIN customers \cup {id}
                           /\ customers'[id].name = stripped
                           /\ customers'[id].phone =
                                 IF "phone" \in b.has /\ b.phone # ""
                                 THEN b.phone ELSE "null"
                           /\ customers'[id].current_balance = 0
      ]_vars

\* a second customer was created from a padded name and a phone, while the
\* first customer owes money
C20_Witness ==
    /\ request.op = "customers" /\ response.status = 201
    /\ request.body.name = <<" ", "a", " ">> /\ request.body.phone = "5"
    /\ \E c, d \in DOMAIN customers :
          /\ c < d
          /\ customers[c].current_balance > 0
          /\ customers[d].name = <<"a">> /\ customers[d].phone = "5"
          /\ customers[d].current_balance = 0

\* C18: every POST /orders and POST /payments request is answered, whatever
\* statement failed.
C18_EveryRequestIsAnswered ==
    (IsOrders \/ IsPayments) => response.status # 0

\* C19: a payment row, once stored, stays as it is; an order row, once
\* stored, stays and changes in nothing but its status; and a request to
\* POST /orders or POST /payments changes nothing of a customer but the
\* balance.
C19_LedgerIsAppendOnly ==
    [][ /\ \A q \in DOMAIN payments :
             q \in DOMAIN payments' /\ payments'[q] = payments[q]
        /\ \A o \in DOMAIN orders :
             /\ o \in DOMAIN orders'
             /\ [orders'[o] EXCEPT !.status = orders[o].status] = orders[o]
        /\ (IsOrders' \/ IsPayments') =>
             /\ DOMAIN customers' = DOMAIN customers
             /\ \A c \in DOMAIN customers :
                   [customers'[c] EXCEPT !.current_balance =
                      customers[c].current_balance] = customers[c]
      ]_vars

\* a payment settled an order while an earlier payment and the order's other
\* fields stayed as they were
C19_Witness ==
    /\ IsPayments /\ response.status = 201 /\ response.settled
    /\ Cardinality(DOMAIN payments) = 2
    /\ \E o \in DOMAIN orders : orders[o].status = "paid"

\* the committed operations of the log, executed one after another
RECURSIVE SerialOrders(_, _, _, _)
SerialOrders(st, items, ids, i) ==
    IF i > Len(items) THEN st
    ELSE SerialOrders(
           [st EXCEPT !.orders = @ @@ (ids[i] :> OrderRow(items[i])),
                      !.customers = AddBalance(@, items[i].customer_id,
                                               items[i].total_price)],
           items, ids, i + 1)

SerialPayment(st, body, id) ==
    LET custs1 == AddBalance(st.customers, body.customer_id, -body.amount) IN
    [customers |-> custs1,
     payments  |-> st.payments @@ (id :> PaymentRow(body)),
     orders    |-> IF ShouldSettle(custs1, body.customer_id)
                   THEN Settle(st.orders, body.customer_id) ELSE st.orders]

RECURSIVE Serial(_, _, _)
Serial(st, l, k) ==
    IF k > Len(l) THEN st
    ELSE LET e == l[k] IN
         Serial(IF e.op = "orders" THEN SerialOrders(st, e.body.items, e.ids, 1)
                ELSE IF e.op = "payments" THEN SerialPayment(st, e.body, e.ids[1])
                ELSE [st EXCEPT !.customers = DeleteRow(@, e.body.id)],
                l, k + 1)

\* C14: whatever the interleaving of a customer deletion with batches and
\* payments for that customer, every order and every payment of the store
\* names a customer of the store.
C14_RowsReferenceCustomers ==
    /\ \A o \in DOMAIN orders : orders[o].customer_id \in DOMAIN customers
    /\ \A q \in DOMAIN payments : payments[q].customer_id \in DOMAIN customers

\* a deletion found no order and no payment and is about to run its DELETE,
\* and an order of the customer was committed in between
C14_Witness ==
    \E s \in Clients :
        /\ handlers[s].op = "delete" /\ handlers[s].pc = "delete"
        /\ \E o \in DOMAIN orders : orders[o].customer_id = handlers[s].body.id

\* C15: the committed tables are the tables that the committed batches,
\* payments and deletions give when they run one after another, in the
\* order of their commits.
C15_CommitsAreSerial ==
    Serial([customers |-> FirstCustomer, orders |-> <<>>, payments |-> <<>>], log, 1)
      = [customers |-> customers, orders |-> orders, payments |-> payments]

\* a payment is about to settle the order of a committed batch while a
\* second batch for the same customer is in flight
C15_Witness ==
    \E s, t \in Clients :
        /\ handlers[s].op = "payments" /\ handlers[s].pc = "settle"
        /\ handlers[t].op = "orders" /\ handlers[t].pc = "insert"
        /\ \E o \in DOMAIN orders :
              /\ orders[o].customer_id = handlers[s].body.customer_id
              /\ orders[o].status = "pending"

\* C16: while a batch is in flight the committed tables, which are what the
\* statements of every other connection read, hold none of its rows and
\* every balance in them is the sum of the order rows less the payment rows
\* in them; after a batch was rolled back they hold none of its rows.
C16_NoPartialBatchVisible ==
    /\ \A s \in Clients :
          (handlers[s].op = "orders" /\ handlers[s].pc # "idle") =>
             \A k \in DOMAIN handlers[s].ids : handlers[s].ids[k] \notin DOMAIN orders
    /\ \A k \in aborted : k \notin DOMAIN orders
    /\ \A c \in DOMAIN customers :
          customers[c].current_balance = OrderTotal(c) - PaymentTotal(c)

\* a batch has written its first entry and not yet its second, and a
\* dashboard read on the other connection is between its two statements
C16_Witness ==
    \E s, t \in Clients :
        /\ handlers[s].op = "orders" /\ handlers[s].pc = "insert"
        /\ handlers[s].i = 2
        /\ DOMAIN handlers[s].customers # {}
        /\ handlers[t].op = "dashboard" /\ handlers[t].pc = "customers"
        /\ handlers[t].read.before.todayQuantity = 0

\* C17: when at most one write was committed between the two statements of
\* a dashboard read, the values sent are those of the store before that
\* write or those of the store after it.
C17_DashboardIsOneState ==
    \A s \in Clients :
        (handlers[s].pc = "sent" /\ handlers[s].read.commits <= 1) =>
            handlers[s].read.sent \in {handlers[s].read.before, handlers[s].read.after}

\* C21: an update of a customer whose name is missing or is empty after
\* trimming is answered 400, an update that names no customer of the store
\* is answered 404, and both change nothing; an update answered 200 sets the
\* name and the phone of the customer it names and leaves the balance of
\* that customer, every other customer, the orders and the payments as
\* they were.
C21_UpdateCustomer ==
    [][ request'.op = "update" =>
          LET id == request'.body.id
              body == request'.body.body
              blank == "name" \notin body.has \/ trim(body.name) = <<>> IN
          /\ orders' = orders /\ payments' = payments
          /\ blank => (response'.status = 400 /\ customers' = customers)
          /\ (~blank /\ id \notin DOMAIN customers) =>
                (response'.status = 404 /\ customers' = customers)
          /\ (~blank /\ id \in DOMAIN customers) =>
                /\ response'.status = 200
                /\ DOMAIN customers' = DOMAIN customers
                /\ customers'[id].name = trim(body.name)
                /\ customers'[id].phone =
                      (IF "phone" \in body.has /\ body.phone # ""
                       THEN body.phone ELSE "null")
                /\ customers'[id].current_balance = customers[id].current_balance
                /\ \A c \in DOMAIN customers \ {id} : customers'[c] = customers[c]
    ]_vars

\* a customer that owes for an order was renamed, next to a second customer
C21_Witness ==
    /\ request.op = "update" /\ response.status = 200
    /\ request.body.id \in DOMAIN customers
    /\ customers[request.body.id].name = <<"b">>
    /\ customers[request.body.id].current_balance # 0
    /\ Cardinality(DOMAIN customers) = 2

\* the step in which the confirmed submission posts its batch
Submits == screen.alert = "confirm" /\ screen'.posts # screen.posts

\* a confirmed submission posts once, and only a confirmed submission
\* creates orders
NoResubmission ==
    [][ /\ Submits => screen'.posts = 1
        /\ orders' # orders => Submits ]_vars

\* C22: a confirmed submission makes one request, the request makes at most
\* one transaction attempt (it takes at most one order id per entry), and
\* when it does not succeed the orders and balances are those from before
\* it and the screen shows the error.
C22_NoRetryFailureSurfaced ==
    [][ Submits =>
          /\ screen'.posts = 1
          /\ nextOrderId' - nextOrderId <= Len(request'.body.items)
          /\ response'.status # 201 =>
                /\ orders' = orders /\ customers' = customers
                /\ screen'.alert = "error" /\ ~screen'.submitting
    ]_vars

\* C25: the batch that a confirmed submission posts has one row for each
\* customer that was listed with a draft quantity above zero when the
\* submit button was pressed, and no other row;
\* each row carries the quantity and unit price of the draft and their
\* product as total_price, and all rows carry the same order_group_id.
C25_BatchIsTheDraftedCustomers ==
    [][ Submits =>
          LET custs == screen.closure.customers
              drafts == screen.closure.draftOrders
              items == request'.body.items
              drafted == { c \in { custs[i] : i \in DOMAIN custs } :
                             c \in DOMAIN drafts /\ drafts[c].quantity > 0 } IN
          /\ Len(items) = Cardinality(drafted)
          /\ Len(items) > 0
          /\ \A c \in drafted :
                Cardinality({ i \in DOMAIN items : items[i].customer_id = c }) = 1
          /\ \A i \in DOMAIN items :
                /\ items[i].customer_id \in drafted
                /\ items[i].quantity = drafts[items[i].customer_id].quantity
                /\ items[i].unit_price = drafts[items[i].customer_id].unitPrice
                /\ items[i].total_price = items[i].quantity * items[i].unit_price
          /\ \A i, j \in DOMAIN items :
                items[i].order_group_id = items[j].order_group_id
    ]_vars

\* a batch of one row was posted and saved while two customers were listed
\* and a draft of the other customer was left at quantity zero
C25_Witness ==
    /\ request.op = "orders" /\ response.status = 201
    /\ Len(request.body.items) = 1
    /\ request.body.items[1].total_price = 8
    /\ Len(screen.customers) = 2

\* C23: the totalDebt that the dashboard sends is the sum of the balances
\* of the customers whose balance is above zero; a customer whose balance is
\* zero or below adds nothing to it and takes nothing from it.
C23_TotalDebtIsPositiveBalances ==
    request.op = "dashboard" =>
        payload.totalDebt =
            SetSum([c \in DOMAIN customers |->
                      IF customers[c].current_balance > 0
                      THEN customers[c].current_balance ELSE 0],
                   DOMAIN customers)

\* the dashboard was read while one customer owed and another was in credit
C23_Witness ==
    /\ request.op = "dashboard"
    /\ \E c \in DOMAIN customers : customers[c].current_balance > 0
    /\ \E c \in DOMAIN customers : customers[c].current_balance < 0

\* what a saved batch did with the total_price of its entries: each row
\* holds the total_price of its entry, and each balance grew by the
\* total_price of the entries that name the customer
TotalsKept(items, ids) ==
    /\ \A i \in DOMAIN items : orders'[ids[i]].total_price = items[i].total_price
    /\ \A c \in DOMAIN customers :
          customers'[c].current_balance =
              customers[c].current_balance
                + SetSum([i \in DOMAIN items |-> items[i].total_price],
                         { i \in DOMAIN items : items[i].customer_id = c })

\* the same for batches whose total_price values are whole cents
WholeCentTotalsKept ==
    [][ (/\ request'.op = "orders" /\ response'.status = 201
         /\ \A i \in DOMAIN request'.body.items :
               request'.body.items[i].total_price % 2 = 0)
          => TotalsKept(request'.body.items, payload'.ids) ]_vars

\* C24: a saved batch stores the total_price of each entry as it was sent
\* and adds it as it was sent to the balance of the customer, also when it
\* is not quantity times unit_price.
C24_TotalPriceIsTrusted ==
    [][ (request'.op = "orders" /\ response'.status = 201)
          => TotalsKept(request'.body.items, payload'.ids) ]_vars

\* the customers that the body of a batch or of a payment names
Named(req) ==
    IF req.op = "orders"
    THEN { req.body.items[i].customer_id : i \in DOMAIN req.body.items }
    ELSE { req.body.customer_id }

\* the rows of a table that belong to none of the customers in S
RowsOfOthers(rows, S) ==
    [r \in { x \in DOMAIN rows : rows[x].customer_id \notin S } |-> rows[r]]

\* C26: a batch or a payment that succeeded left every customer that its
\* body does not name with the balance, the orders (and their statuses) and
\* the payments from before it.
C26_OtherCustomersUntouched ==
    [][ (request'.op \in {"orders", "payments"} /\ response'.status = 201) =>
          LET named == Named(request') IN
          /\ DOMAIN customers' = DOMAIN customers
          /\ \A c \in DOMAIN customers \ named : customers'[c] = customers[c]
          /\ RowsOfOthers(orders', named) = RowsOfOthers(orders, named)
          /\ RowsOfOthers(payments', named) = RowsOfOthers(payments, named)
    ]_vars

\* a payment of one customer ran its settlement while an order of another
\* customer was pending
C26_Witness ==
    /\ request.op = "payments" /\ response.status = 201 /\ response.settled
    /\ \E o \in DOMAIN orders :
          /\ orders[o].customer_id # request.body.customer_id
          /\ orders[o].status = "pending"
          /\ customers[orders[o].customer_id].current_balance > 0

\* C27: a batch leaves every order that existed before it as it was and
\* inserts its own orders as pending, also for a customer whose balance is
\* zero or below after it; a pending order becomes paid only in a payment
\* of its customer that was committed and left the balance at zero or below.
C27_BatchNeverSettles ==
    [][ /\ IsOrders' =>
              /\ \A o \in DOMAIN orders : o \in DOMAIN orders' /\ orders'[o] = orders[o]
              /\ \A o \in DOMAIN orders' \ DOMAIN orders : orders'[o].status = "pending"
        /\ \A o \in DOMAIN orders \cap DOMAIN orders' :
              (orders[o].status = "pending" /\ orders'[o].status = "paid") =>
                  /\ IsPayments' /\ response'.committed
                  /\ request'.body.customer_id = orders[o].customer_id
                  /\ customers'[orders[o].customer_id].current_balance <= 0
    ]_vars

\* a batch was saved for a customer in credit, and its order is pending
\* although the balance is still zero or below
C27_Witness ==
    /\ IsOrders /\ response.status = 201
    /\ \E o \in DOMAIN orders :
          /\ orders[o].status = "pending"
          /\ customers[orders[o].customer_id].current_balance <= 0
          /\ PaymentsOf(payments, orders[o].customer_id) # {}

\* C28: for every paid order of the committed store there is a committed
\* payment of the order's customer that read, after its own decrement, a
\* balance of zero or below, and the batch that created the order was
\* committed before that payment.
C28_PaidHasSettlingPayment ==
    \A o \in DOMAIN orders :
        orders[o].status = "paid" =>
            \E k \in DOMAIN log :
                /\ log[k].op = "payments"
                /\ log[k].body.customer_id = orders[o].customer_id
                /\ log[k].read.balance <= 0
                /\ \E j \in 1 .. (k - 1) :
                      /\ log[j].op = "orders"
                      /\ \E i \in DOMAIN log[j].ids : log[j].ids[i] = o

\* the orders of a customer are paid after a first payment that read a
\* balance above zero and a second that read zero
C28_Witness ==
    /\ \E o \in DOMAIN orders : orders[o].status = "paid"
    /\ \E k \in DOMAIN log : log[k].op = "payments" /\ log[k].read.balance > 0

\* C29: a batch or payment request in flight holds the one connection it
\* acquired and has not released it; once it has finished, by its commit,
\* by its rollback or by a rollback that threw, the connection it acquired
\* was released once, so that no finished request holds a connection.
C29_ConnectionReleasedOnce ==
    \A s \in Clients :
        IF handlers[s].op \in {"orders", "payments"}
        THEN pool[s].acquired = 1 /\ pool[s].released = 0
        ELSE pool[s].released = pool[s].acquired

\* one request has finished by a rollback that threw and another by its
\* commit
C29_Witness ==
    \E s, t \in Clients :
        /\ handlers[s].op = "idle" /\ pool[s].via = "rollbackFailed"
        /\ pool[s].acquired = 1 /\ pool[s].released = 1
        /\ handlers[t].op = "idle" /\ pool[t].via = "commit"
        /\ pool[t].released = 1
====
